---------------------------- MODULE Spec2Model ----------------------------
(***************************************************************************)
(* Model of the step-count dashboard (src/src/pages/dashboard.js): the     *)
(* Dashboard component's state, its fetchData callback (query, timestamp   *)
(* normalization, sort), the auth-state effect, the manual refresh, and    *)
(* what a render derives from the stored record set.                       *)
(*                                                                         *)
(* Values.  An optional field is <<>> (absent, JS undefined) or <<v>>.     *)
(* A JS Date is [valid, ms]; Invalid Date has valid = FALSE, and its time  *)
(* value is NaN.  Epoch milliseconds are kept small so that every          *)
(* arithmetic result is exact.                                             *)
(***************************************************************************)
EXTENDS Integers, Sequences, FiniteSets, TLC

VARIABLES
    user,        \* useAuth().user: "none" (null) or a uid
    authLoading, \* useAuth().loading
    online,      \* navigator.onLine
    mounted,     \* the Dashboard page is the one on screen
    stepData,    \* useState([])
    error,       \* useState('')
    isLoading,   \* useState(true)
    debugInfo,   \* useState('')
    pending,     \* fetchData calls suspended at `await getDocs(...)`
    nfetch,      \* number of fetchData calls that reached getDocs
    queryLog,    \* the queries sent to the store
    now,         \* the wall clock read by `new Date()`
    last,        \* the response most recently handled by the mounted component
    escaped,     \* an exception left fetchData
    rendered     \* what the latest render put on screen

vars == <<user, authLoading, online, mounted, stepData, error, isLoading,
          debugInfo, pending, nfetch, queryLog, now, last, escaped, rendered>>

-----------------------------------------------------------------------------
(* Bounds of the model *)

\* longest response built from the documents whose timestamps stress the sort
MaxDocs == 3
\* longest response built from well-formed documents (more than RecentCount)
MaxRecords == 6
\* fetchData calls that reach the store in one behaviour
MaxFetches == 2

-----------------------------------------------------------------------------
(* JavaScript values *)

NoUser == "none"
Users == {"alice", "bob"}

\* user.email of a uid
Email(uid) == uid \o "@example.com"

Date(ms) == [valid |-> TRUE, ms |-> ms]
InvalidDate == [valid |-> FALSE, ms |-> 0]

\* a Firestore Timestamp: has a toDate method and a seconds field
FsTimestamp(s, n) == [type |-> "Timestamp", seconds |-> s, nanoseconds |-> n]
\* a plain map: toDate, when present, is a field value and never a function;
\* it is held as its truthiness
MapValue(td, secs) == [type |-> "map", toDate |-> td, seconds |-> secs]
NumberValue(v) == [type |-> "number", num |-> v]
StringValue(s) == [type |-> "string", str |-> s]
NullValue == [type |-> "null"]
UndefinedValue == [type |-> "undefined"]
BooleanValue == [type |-> "boolean"]

\* Timestamp.toDate(): seconds * 1000 + nanoseconds / 1e6
FsToDate(ts) == Date(ts.seconds * 1000 + (ts.nanoseconds \div 1000000))

\* new Date(string): the strings of the model and the instants they parse to
DateParse(s) ==
    CASE s = "1970-01-01T00:00:01Z" -> Date(1000)
      [] s = "1970-01-01T00:00:02.500Z" -> Date(2500)
      [] s = "1970-01-01T01:01:00Z" -> Date(3660000)
      [] OTHER -> InvalidDate

\* truthiness of an optional number (undefined and 0 are falsy)
TruthyNum(opt) == opt # <<>> /\ opt[1] # 0
\* truthiness of timestamp?.toDate
TruthyToDate(ts) ==
    CASE ts.type = "Timestamp" -> TRUE
      [] ts.type = "map" -> ts.toDate = <<TRUE>>
      [] OTHER -> FALSE
\* timestamp?.seconds
SecondsOf(ts) ==
    CASE ts.type = "Timestamp" -> <<ts.seconds>>
      [] ts.type = "map" -> ts.seconds
      [] OTHER -> <<>>

\* docData.timestamp.toDate() throws TypeError when toDate is no function
ToDateThrows(ts) == TruthyToDate(ts) /\ ts.type # "Timestamp"

TypeErrorMessage == "docData.timestamp.toDate is not a function"

-----------------------------------------------------------------------------
(* fetchData: the normalization of one document (lines 56-90) *)

\* the if / else-if chain over docData.timestamp, for a value on which
\* toDate() does not throw
ResolveTimestamp(ts, nowMs) ==
    IF TruthyToDate(ts) THEN FsToDate(ts)
    ELSE IF TruthyNum(SecondsOf(ts)) THEN Date(SecondsOf(ts)[1] * 1000)
    ELSE IF ts.type = "number" THEN Date(ts.num)
    ELSE IF ts.type = "string" THEN DateParse(ts.str)
    ELSE Date(nowMs)

\* docData.steps || docData.stepCount || 0
ResolveSteps(d) ==
    IF TruthyNum(d.steps) THEN d.steps[1]
    ELSE IF TruthyNum(d.stepCount) THEN d.stepCount[1]
    ELSE 0

\* the object returned by the map callback
NormalizeDoc(doc, nowMs) ==
    [id |-> doc.id,
     steps |-> ResolveSteps(doc.data),
     timestamp |-> ResolveTimestamp(doc.data.timestamp, nowMs),
     originalTimestamp |-> doc.data.timestamp]

\* snapshot.docs.map(...): throws at the first document whose toDate() throws
MapThrows(docs) == \E i \in 1..Len(docs) : ToDateThrows(docs[i].data.timestamp)

MapDocs(docs, nowMs) == [i \in 1..Len(docs) |-> NormalizeDoc(docs[i], nowMs)]


-----------------------------------------------------------------------------
(* fetchData: data.sort((a, b) => a.timestamp - b.timestamp)  (line 93) *)

\* the comparator; a NaN difference counts as +0 (ECMAScript SortCompare)
Compare(a, b) ==
    IF a.timestamp.valid /\ b.timestamp.valid
    THEN a.timestamp.ms - b.timestamp.ms
    ELSE 0

\* Array.prototype.sort is stable: an element goes after every earlier one
\* that does not compare greater
RECURSIVE InsertStable(_, _)
InsertStable(s, x) ==
    IF s = <<>> \/ Compare(s[Len(s)], x) <= 0
    THEN Append(s, x)
    ELSE Append(InsertStable(SubSeq(s, 1, Len(s) - 1), x), s[Len(s)])

RECURSIVE StableSort(_)
StableSort(s) ==
    IF s = <<>> THEN <<>>
    ELSE InsertStable(StableSort(SubSeq(s, 1, Len(s) - 1)), s[Len(s)])

\* a consistent comparator: comparing equal must be transitive (the other
\* conditions of the language specification hold of any numeric difference).
\* An Invalid Date compares equal to every element, so with one in the array
\* the comparator is consistent only if all elements compare equal
ConsistentCompare(s) ==
    \/ \A i \in 1..Len(s) : s[i].timestamp.valid
    \/ \A j, k \in 1..Len(s) : Compare(s[j], s[k]) = 0

IndexPermutations(n) ==
    {p \in [1..n -> 1..n] : \A i, j \in 1..n : p[i] = p[j] => i = j}

\* the orders sort may leave the array in: the stable ascending order, or,
\* when the comparator is inconsistent (an Invalid Date among distinct valid
\* instants), any order: the language leaves it to the implementation
SortOutcomes(s) ==
    IF ConsistentCompare(s)
    THEN {StableSort(s)}
    ELSE {[i \in 1..Len(s) |-> s[p[i]]] : p \in IndexPermutations(Len(s))}

-----------------------------------------------------------------------------
(* Dashboard render (lines 124-243) *)

\* toLocaleTimeString([], {hour: '2-digit', minute: '2-digit'})
TimeLabel(d) ==
    IF d.valid
    THEN [valid |-> TRUE, hh |-> (d.ms \div 3600000) % 24, mm |-> (d.ms \div 60000) % 60]
    ELSE [valid |-> FALSE, hh |-> 0, mm |-> 0]

chartDataValuesReversed(records) ==
    [labels |-> [i \in 1..Len(records) |-> TimeLabel(records[i].timestamp)],
     data |-> [i \in 1..Len(records) |-> records[Len(records) + 1 - i].steps]]

\* chartData: labels and datasets[0].data
chartData(records) ==
    [labels |-> [i \in 1..Len(records) |-> TimeLabel(records[i].timestamp)],
     data |-> [i \in 1..Len(records) |-> records[i].steps]]

\* stepData.reduce((sum, item) => sum + item.steps, 0)
RECURSIVE Reduce(_, _, _)
Reduce(records, i, sum) ==
    IF i > Len(records) THEN sum
    ELSE Reduce(records, i + 1, sum + records[i].steps)

NumberOf(v) == [nan |-> FALSE, value |-> v]
NaN == [nan |-> TRUE, value |-> 0]

\* Math.round(total / length): 0 / 0 is NaN; otherwise floor(x + 0.5)
RoundedAverageTruncating(total, length) ==
    IF length = 0 THEN NaN ELSE NumberOf(total \div length)

RoundedAverage(total, length) ==
    IF length = 0 THEN NaN
    ELSE NumberOf((2 * total + length) \div (2 * length))

\* the three statistics cells (lines 203-221)
Statistics(records) ==
    [count |-> Len(records),
     total |-> Reduce(records, 1, 0),
     average |-> RoundedAverage(Reduce(records, 1, 0), Len(records))]

RecentCount == 5

Reverse(s) == [i \in 1..Len(s) |-> s[Len(s) + 1 - i]]

\* slice(-RecentCount)
SliceLast(s, n) == SubSeq(s, (IF Len(s) > n THEN Len(s) - n ELSE 0) + 1, Len(s))

RecentActivityUnreversed(records) == SliceLast(records, RecentCount)

\* stepData.slice(-5).reverse()
RecentActivity(records) == Reverse(SliceLast(records, RecentCount))

\* which branch of the isLoading / length ternary is rendered
ViewOf(loading, records) ==
    IF loading THEN "loading"
    ELSE IF Len(records) = 0 THEN "empty"
    ELSE "data"

\* one render of the component: the chart series is computed on every render,
\* the statistics and the recent activity only in the data branch
Render(loading, records, err, debug) ==
    [view |-> ViewOf(loading, records),
     refresh |-> ViewOf(loading, records) = "empty",
     showError |-> err # "",
     showDebug |-> debug # <<>>,
     chart |-> chartData(records),
     stats |-> IF ViewOf(loading, records) = "data"
               THEN <<Statistics(records)>> ELSE <<>>,
     recent |-> IF ViewOf(loading, records) = "data"
                THEN RecentActivity(records) ELSE <<>>]

-----------------------------------------------------------------------------
(* The store's responses *)

RawData(steps, stepCount, ts) ==
    [steps |-> steps, stepCount |-> stepCount, timestamp |-> ts]

\* a query result for uid: the documents, each with the id of a document of
\* that user (ids are unique in the collection)
SnapshotDocs(uid, datas) ==
    [i \in 1..Len(datas) |-> [id |-> [owner |-> uid, n |-> i], data |-> datas[i]]]

SeqsUpTo(S, n) == UNION {[1..m -> S] : m \in 1..n}

StepsValues == {<<>>, <<0>>, <<2>>}
StepCountValues == {<<>>, <<0>>, <<3>>}
TimestampValues ==
    {FsTimestamp(1, 500000000), FsTimestamp(0, 0),
     MapValue(<<TRUE>>, <<>>), MapValue(<<FALSE>>, <<2>>),
     MapValue(<<>>, <<0>>), MapValue(<<>>, <<2>>), MapValue(<<>>, <<>>),
     NumberValue(1000), NumberValue(0),
     StringValue("1970-01-01T00:00:02.500Z"), StringValue("not a date"),
     NullValue, UndefinedValue, BooleanValue}

\* every single document of the field values above
AnyData ==
    {RawData(s, c, t) : s \in StepsValues, c \in StepCountValues, t \in TimestampValues}

\* documents whose timestamps stress the sort and the map
SortData ==
    {RawData(<<2>>, <<>>, t) :
        t \in {NumberValue(1000), NumberValue(2000), StringValue("not a date"),
               NullValue, MapValue(<<TRUE>>, <<>>)}}

\* well-formed documents
PlainData ==
    {RawData(<<0>>, <<>>, NumberValue(60000)), RawData(<<3>>, <<>>, NumberValue(60000)),
     RawData(<<3>>, <<>>, NumberValue(3660000))}

\* the non-empty results of the single-user specification
RichResults ==
    {<<d>> : d \in AnyData} \cup SeqsUpTo(SortData, MaxDocs)
        \cup SeqsUpTo(PlainData, MaxRecords)

\* the non-empty results of the full specification
SmallResults ==
    {<<RawData(<<2>>, <<>>, NumberValue(2000))>>,
     <<RawData(<<2>>, <<>>, NullValue), RawData(<<>>, <<3>>, NumberValue(1000))>>,
     <<RawData(<<2>>, <<>>, MapValue(<<TRUE>>, <<>>))>>}

\* the errors getDocs rejects with (FirebaseError messages)
RejectMessages == {"Missing or insufficient permissions."}

ClockValues == {1500, 2500}

NoResponse == [kind |-> "none"]

-----------------------------------------------------------------------------
(* Initial state: the component has just mounted, auth is still resolving *)

Init ==
    /\ user = NoUser
    /\ authLoading = TRUE
    /\ online \in BOOLEAN
    /\ mounted = TRUE
    /\ stepData = <<>>
    /\ error = ""
    /\ isLoading = TRUE
    /\ debugInfo = <<>>
    /\ pending = {}
    /\ nfetch = 0
    /\ queryLog = {}
    /\ now \in ClockValues
    /\ last = NoResponse
    /\ escaped = FALSE
    /\ rendered = Render(TRUE, <<>>, "", <<>>)

\* the render that follows every state update
Rerender == rendered' = Render(isLoading', stepData', error', debugInfo')

-----------------------------------------------------------------------------
(* fetchData up to `await getDocs(stepsQuery)` (lines 29-41), called with  *)
(* the user of the render it was created in                                *)

\* where('userId', '==', user.uid)
QueryFilter(u) == u

FetchStart(u) ==
    /\ u # NoUser
    /\ nfetch < MaxFetches
    /\ isLoading' = TRUE
    /\ error' = ""
    /\ debugInfo' = <<>>
    /\ nfetch' = nfetch + 1
    /\ pending' = pending \cup {[uid |-> u, k |-> nfetch + 1, stale |-> FALSE]}
    /\ queryLog' = queryLog \cup
            {[filter |-> QueryFilter(u), user |-> u, online |-> online]}

\* the effect on [user, loading, router] (lines 109-122), run with the new
\* auth state while the component is mounted
Effect(u) ==
    IF u = NoUser
    THEN \* router.push('/login'): the page is left; what its suspended
         \* fetches do later reaches no mounted component
         /\ mounted' = FALSE
         /\ pending' = {[p EXCEPT !.stale = TRUE] : p \in pending}
         /\ UNCHANGED <<error, isLoading, debugInfo, nfetch, queryLog>>
    ELSE IF ~online
    THEN /\ error' = "No internet connection. Please check your network."
         /\ isLoading' = FALSE
         /\ UNCHANGED <<mounted, debugInfo, pending, nfetch, queryLog>>
    ELSE /\ FetchStart(u)
         /\ UNCHANGED mounted

-----------------------------------------------------------------------------
(* The auth state changes (useAuth, line 21) and the effect they trigger *)

\* the initial resolution of the session ends with a user or with none
AuthResolve(u) ==
    /\ mounted /\ authLoading
    /\ authLoading' = FALSE
    /\ user' = u
    /\ Effect(u)
    /\ UNCHANGED <<online, stepData, now, last, escaped>>
    /\ Rerender

\* another user signs in while the dashboard stays mounted
UserChange(u) ==
    /\ mounted /\ ~authLoading
    /\ user # NoUser /\ u # NoUser /\ u # user
    /\ user' = u
    /\ Effect(u)
    /\ UNCHANGED <<authLoading, online, stepData, now, last, escaped>>
    /\ Rerender

\* the Logout button (line 162)
Logout ==
    /\ mounted /\ ~authLoading /\ user # NoUser
    /\ user' = NoUser
    /\ Effect(NoUser)
    /\ UNCHANGED <<authLoading, online, stepData, now, last, escaped>>
    /\ Rerender

\* a user signs in on the login page and is sent to the dashboard: a fresh
\* component (lines 23-26) whose effect runs on mount
Login(u) ==
    /\ ~mounted /\ ~authLoading /\ user = NoUser /\ u # NoUser
    /\ user' = u
    /\ mounted' = TRUE
    /\ stepData' = <<>>
    /\ IF online
       THEN FetchStart(u)
       ELSE /\ error' = "No internet connection. Please check your network."
            /\ isLoading' = FALSE
            /\ debugInfo' = <<>>
            /\ UNCHANGED <<pending, nfetch, queryLog>>
    /\ last' = NoResponse
    /\ UNCHANGED <<authLoading, online, now, escaped>>
    /\ Rerender

\* navigator.onLine changes
SetOnline ==
    /\ online' = ~online
    /\ UNCHANGED <<user, authLoading, mounted, stepData, error, isLoading,
                   debugInfo, pending, nfetch, queryLog, now, last, escaped, rendered>>

\* time passes
Tick ==
    /\ \E t \in ClockValues : t > now /\ now' = t
    /\ UNCHANGED <<user, authLoading, online, mounted, stepData, error, isLoading,
                   debugInfo, pending, nfetch, queryLog, last, escaped, rendered>>

\* the Refresh Data button (lines 190-195), on screen in the empty view
Refresh ==
    /\ mounted /\ rendered.refresh
    /\ FetchStart(user)
    /\ UNCHANGED <<user, authLoading, online, mounted, stepData, now, last, escaped>>
    /\ Rerender

-----------------------------------------------------------------------------
(* fetchData after `await getDocs(stepsQuery)` (lines 41-106) *)

\* what is kept of a handled response: snapshot.size, and the documents that
\* the map callback took
Response(kind, p, size, docs, msg) ==
    [kind |-> kind, uid |-> p.uid, k |-> p.k, size |-> size, docs |-> docs,
     at |-> now, message |-> msg]

CatchBlockRethrow(msg) ==
    [error |-> error, debugInfo |-> debugInfo, escaped |-> TRUE]

\* catch (err) { setError(...); setDebugInfo(...) }  (lines 100-103)
CatchBlock(msg) ==
    [error |-> "Error fetching data: " \o msg,
     debugInfo |-> <<"Error details: ", msg>>,
     escaped |-> FALSE]

\* a failure inside the try block: the catch block, then finally
Fail(kind, p, size, msg) ==
    /\ error' = CatchBlock(msg).error
    /\ debugInfo' = CatchBlock(msg).debugInfo
    /\ escaped' = (escaped \/ CatchBlock(msg).escaped)
    /\ isLoading' = FALSE
    /\ last' = Response(kind, p, size, <<>>, msg)
    /\ UNCHANGED stepData

\* the response reaches a component that is no longer mounted
DropStale ==
    \E p \in pending :
        /\ p.stale
        /\ pending' = pending \ {p}
        /\ UNCHANGED <<user, authLoading, online, mounted, stepData, error, isLoading,
                       debugInfo, nfetch, queryLog, now, last, escaped, rendered>>

\* getDocs rejects
ResolveReject ==
    \E p \in pending, msg \in RejectMessages :
        /\ ~p.stale
        /\ pending' = pending \ {p}
        /\ Fail("rejected", p, 0, msg)
        /\ UNCHANGED <<user, authLoading, online, mounted, nfetch, queryLog, now>>
        /\ Rerender

\* snapshot.empty (lines 45-53)
ResolveEmpty ==
    \E p \in pending :
        /\ ~p.stale
        /\ pending' = pending \ {p}
        /\ debugInfo' = <<"No documents found for user ", Email(p.uid)>>
        /\ stepData' = <<>>
        /\ isLoading' = FALSE
        /\ last' = Response("empty", p, 0, <<>>, "")
        /\ UNCHANGED <<user, authLoading, online, mounted, error, nfetch, queryLog,
                       now, escaped>>
        /\ Rerender

\* a non-empty snapshot: map, sort, setStepData, setDebugInfo (lines 55-98)
ResolveDocs(results) ==
    \E p \in pending, datas \in results :
        LET docs == SnapshotDocs(p.uid, datas) IN
        /\ ~p.stale
        /\ pending' = pending \ {p}
        /\ IF MapThrows(docs)
           THEN Fail("threw", p, Len(docs), TypeErrorMessage)
           ELSE /\ stepData' \in SortOutcomes(MapDocs(docs, now))
                /\ debugInfo' = <<"Successfully loaded ", Len(stepData'),
                                  stepData'[Len(stepData')].timestamp>>
                /\ isLoading' = FALSE
                /\ last' = Response("data", p, Len(docs), docs, "")
                /\ UNCHANGED <<error, escaped>>
        /\ UNCHANGED <<user, authLoading, online, mounted, nfetch, queryLog, now>>
        /\ Rerender

ResolveSmall == ResolveDocs(SmallResults)

ResolveRich == ResolveDocs(RichResults)

-----------------------------------------------------------------------------
(* Specifications *)

\* the dashboard under every auth change, with small query results
Next ==
    \/ \E u \in Users \cup {NoUser} : AuthResolve(u)
    \/ \E u \in Users : UserChange(u)
    \/ Logout
    \/ \E u \in Users : Login(u)
    \/ SetOnline
    \/ Tick
    \/ Refresh
    \/ DropStale
    \/ ResolveReject
    \/ ResolveEmpty
    \/ ResolveSmall

Spec == Init /\ [][Next]_vars

\* one signed-in user, with every query result of the bounded domains
FetchNext ==
    \/ AuthResolve("alice")
    \/ Tick
    \/ Refresh
    \/ ResolveReject
    \/ ResolveEmpty
    \/ ResolveRich

FetchSpec == Init /\ [][FetchNext]_vars

-----------------------------------------------------------------------------
(* Properties.  While last.kind = "data" the record set is the one stored   *)
(* from last.docs at time last.at.                                          *)

\* the raw document a stored record was made from
DocOf(rec) == CHOOSE d \in {last.docs[i] : i \in 1..Len(last.docs)} : d.id = rec.id

Records == {stepData[i] : i \in 1..Len(stepData)}

\* C1: the resolved steps of a record is the document's `steps` field when it
\* is present (whatever its value, 0 included), else its `stepCount` field
\* when that is present, else 0.
StepsResolvedAsSpecified ==
    last.kind = "data" =>
        \A rec \in Records :
            LET d == DocOf(rec).data IN
            /\ d.steps # <<>> => rec.steps = d.steps[1]
            /\ (d.steps = <<>> /\ d.stepCount # <<>>) => rec.steps = d.stepCount[1]
            /\ (d.steps = <<>> /\ d.stepCount = <<>>) => rec.steps = 0

\* the instant the timestamp's shape implies: a toDate conversion, then an
\* integer seconds field, then a number, then a string, else the current time
ImpliedInstant(ts, nowMs) ==
    IF ts.type = "Timestamp" THEN FsToDate(ts)
    ELSE IF ts.type = "map" /\ ts.seconds # <<>> THEN Date(ts.seconds[1] * 1000)
    ELSE IF ts.type = "number" THEN Date(ts.num)
    ELSE IF ts.type = "string" THEN DateParse(ts.str)
    ELSE Date(nowMs)

\* C2: the instant of a record is the one its timestamp's shape implies, the
\* shapes tried in the fixed order, seconds * 1000 for every integer seconds
\* (0 included), and the current time only for a value of none of the shapes.
TimestampResolvedAsSpecified ==
    last.kind = "data" =>
        \A rec \in Records :
            rec.timestamp = ImpliedInstant(DocOf(rec).data.timestamp, last.at)

UnrecognizedShape(ts) == ts.type \in {"null", "undefined", "boolean"}

\* C3: a non-empty query result is always normalized and stored whole: as
\* many records as documents, one per document id, a document whose timestamp
\* has an unrecognized shape getting the current time.
NoRecordDropped ==
    (last.kind # "none" /\ last.size > 0) =>
        /\ last.kind = "data"
        /\ Len(stepData) = last.size
        /\ {rec.id : rec \in Records} = {last.docs[i].id : i \in 1..Len(last.docs)}
        /\ \A rec \in Records :
              UnrecognizedShape(DocOf(rec).data.timestamp)
                  => rec.timestamp = Date(last.at)

\* b's instant is strictly earlier than a's (false when either is NaN)
Earlier(b, a) == a.timestamp.valid /\ b.timestamp.valid /\ b.timestamp.ms < a.timestamp.ms

SameInstant(a, b) == a.timestamp.valid /\ b.timestamp.valid /\ a.timestamp.ms = b.timestamp.ms

\* C4: the stored record set is a permutation of the normalized records in
\* ascending order of instant (no record is followed by one with an earlier
\* instant), records with equal instants in their input order.
SortedAscendingStable ==
    last.kind = "data" =>
        /\ Len(stepData) = Len(last.docs)
        /\ Records = {NormalizeDoc(last.docs[i], last.at) : i \in 1..Len(last.docs)}
        /\ \A i, j \in 1..Len(stepData) :
              i < j =>
                 /\ ~Earlier(stepData[j], stepData[i])
                 /\ SameInstant(stepData[i], stepData[j])
                        => stepData[i].id.n < stepData[j].id.n

RECURSIVE SumOfSteps(_)
SumOfSteps(records) ==
    IF records = <<>> THEN 0 ELSE Head(records).steps + SumOfSteps(Tail(records))

\* C5: count is the number of records, total the sum of their steps (0 for
\* the empty set), the average total / count is NaN exactly when count = 0,
\* and the displayed average is the integer nearest to total / count (a half
\* rounds up).
StatisticsAsSpecified ==
    LET st == Statistics(stepData)
        n == Len(stepData)
    IN  /\ st.count = n
        /\ st.total = SumOfSteps(stepData)
        /\ n = 0 => (st.total = 0 /\ st.average.nan)
        /\ n > 0 => /\ ~st.average.nan
                    /\ -n <= 2 * st.total - 2 * n * st.average.value
                    /\ 2 * st.total - 2 * n * st.average.value < n
        /\ rendered.view = "data" => rendered.stats = <<st>>

\* C5 witness: two records of 0 and 3 steps are shown with average 2 (1.5 rounded)
StatisticsRoundedShown ==
    /\ rendered.view = "data"
    /\ Len(stepData) = 2
    /\ rendered.stats[1].total = 3
    /\ rendered.stats[1].average = NumberOf(2)

\* C6: the recent-activity list holds min(5, count) records, the last five of
\* the record set, most recent first (the whole set reversed when count <= 5,
\* nothing for the empty set), and the stored record set stays as the fetch
\* stored it.
RecentActivityAsSpecified ==
    LET r == RecentActivity(stepData)
        n == Len(stepData)
    IN  /\ Len(r) = (IF n < 5 THEN n ELSE 5)
        /\ \A i \in 1..Len(r) : r[i] = stepData[n + 1 - i]
        /\ n <= 5 => (Len(r) = n /\ \A i \in 1..n : stepData[i] = r[n + 1 - i])
        /\ rendered.view = "data" => rendered.recent = r
        /\ last.kind = "data" => stepData \in SortOutcomes(MapDocs(last.docs, last.at))

\* C6 witness: more than five records, of which the list shows five, the
\* latest first
RecentOfMoreThanFive ==
    /\ rendered.view = "data"
    /\ Len(stepData) > 5
    /\ Len(rendered.recent) = 5
    /\ rendered.recent[1] = stepData[Len(stepData)]
    /\ rendered.recent[1] # rendered.recent[5]

\* what one response of the full specification can store
SingleFetchResultsOf(u) ==
    UNION {SortOutcomes(MapDocs(SnapshotDocs(u, datas), t)) :
              datas \in {d \in SmallResults : ~MapThrows(SnapshotDocs(u, d))},
              t \in ClockValues}

SingleFetchResults == {<<>>} \cup UNION {SingleFetchResultsOf(u) : u \in Users}

\* C7: in every state the record set is what a single response stored, the
\* chart labels and values have its length and index i of both is record i,
\* and the count, total and recent activity shown are those of that set.
ViewsFromOneRecordSet ==
    LET n == Len(stepData) IN
    /\ stepData \in SingleFetchResults
    /\ Len(rendered.chart.labels) = n
    /\ Len(rendered.chart.data) = n
    /\ \A i \in 1..n :
          /\ rendered.chart.labels[i] = TimeLabel(stepData[i].timestamp)
          /\ rendered.chart.data[i] = stepData[i].steps
    /\ rendered.view = "data" =>
          /\ rendered.stats[1].count = n
          /\ rendered.stats[1].total = SumOfSteps(stepData)
          /\ \A i \in 1..Len(rendered.recent) : rendered.recent[i] = stepData[n + 1 - i]

\* C7 witness: two fetches overlapped and the one started first resolved
\* last, storing two records
OverlapResolvedOutOfOrder ==
    /\ mounted /\ rendered.view = "data"
    /\ Len(stepData) = 2
    /\ nfetch = 2 /\ pending = {}
    /\ last.kind = "data" /\ last.k = 1

\* C8: every query filters on the uid of the user authenticated when the
\* fetch starts, and every record on screen was returned for the uid of the
\* user authenticated now.
OwnDataOnly ==
    /\ \A q \in queryLog : q.filter = q.user
    /\ (mounted /\ rendered.view = "data") =>
          \A rec \in Records : rec.id.owner = user

\* C9: no query is sent to the store by a fetch that starts while the
\* browser is offline, whether the effect or the Refresh Data button starts it.
NoQueryWhileOffline == \A q \in queryLog : q.online

\* C10: a step in which a fetch fails (rejected query, or exception while its
\* result is processed) sets the error to a message containing the error's
\* description, leaves the loading flag false, lets no exception out of
\* fetchData and issues no query; a query is only ever issued by a step of the
\* Refresh Data button or of an auth-state change.
FailureCaughtNoRetry ==
    [][/\ (last' # last /\ last'.kind \in {"rejected", "threw"}) =>
            /\ error' = "Error fetching data: " \o last'.message
            /\ last'.message \in RejectMessages \cup {TypeErrorMessage}
            /\ ~isLoading'
            /\ ~escaped'
            /\ queryLog' = queryLog /\ nfetch' = nfetch
            /\ pending' \subseteq pending
       /\ nfetch' > nfetch =>
            (rendered.refresh \/ user' # user \/ authLoading' # authLoading)]_vars

\* C10 witness: an exception thrown while the result was processed has been
\* caught and is shown
ProcessingFailureShown ==
    /\ last.kind = "threw"
    /\ error = "Error fetching data: " \o TypeErrorMessage
    /\ ~isLoading /\ ~escaped
    /\ pending = {}

\* C11: the step in which a query resolves with zero documents ends with no
\* error, an empty record set and the loading flag false, the view being the
\* 'no data yet' one that offers Refresh Data.
EmptyResultIsNoError ==
    [][(last' # last /\ last'.kind = "empty") =>
            /\ error' = ""
            /\ stepData' = <<>>
            /\ ~isLoading'
            /\ rendered'.view = "empty"
            /\ rendered'.refresh]_vars

\* C12: the record set is discarded when a fetch begins: a step in which
\* fetchData sends a query leaves the record set empty, so that a fetch that
\* fails leaves no records of an earlier fetch on screen.
RecordSetDiscardedAtFetchStart ==
    [][nfetch' > nfetch => stepData' = <<>>]_vars

\* a response is still awaited by the mounted component
LivePending(ps) == {p \in ps : ~p.stale}

\* the record set, error and debug info a response of this kind leaves when
\* it alone decides them
WrittenBy(resp, records, err, debug) ==
    CASE resp.kind = "data" ->
            /\ records \in SortOutcomes(MapDocs(resp.docs, resp.at))
            /\ err = ""
            /\ debug = <<"Successfully loaded ", Len(records), records[Len(records)].timestamp>>
      [] resp.kind = "empty" ->
            /\ records = <<>>
            /\ err = ""
            /\ debug = <<"No documents found for user ", Email(resp.uid)>>
      [] OTHER ->
            /\ err = "Error fetching data: " \o resp.message
            /\ debug = <<"Error details: ", resp.message>>

\* C13: when two fetches overlapped, once both have resolved the record set,
\* the error and the debug info are the ones of the response that resolved
\* last, whichever fetch was started last.  (The step checked is the one in
\* which the fetch started first resolves after a later-started one did, no
\* fetch being left in flight.)
LastResponseWins ==
    [][(/\ last.kind # "none" /\ last'.kind # "none"
        /\ last' # last
        /\ last'.k < last.k
        /\ LivePending(pending') = {})
          => WrittenBy(last', stepData', error', debugInfo')]_vars

\* C14: while a fetch of the mounted component awaits the store's response
\* the loading flag is true and the loading indicator is what is shown
\* (neither the statistics nor Refresh Data).
LoadingWhileFetchInFlight ==
    (mounted /\ LivePending(pending) # {}) =>
        /\ isLoading
        /\ rendered.view = "loading"
        /\ ~rendered.refresh
        /\ rendered.stats = <<>>

=============================================================================
